---- MODULE Spec2Model ----
(***************************************************************************)
(* caching-proxy (src/index.js): the request handler of CachingProxy.start *)
(* with its cache lookups, upstream calls and snapshot writes, together    *)
(* with saveCache, loadCache and clearCache.                               *)
(*                                                                         *)
(* Time is counted in seconds.  A JavaScript value is a record [t, v]: its *)
(* type and its JSON text.  The cache key is the md5 digest of the JSON    *)
(* text of {method, url, headers}; the digest is kept as a tagged copy of  *)
(* the text it was computed from (md5 collisions are not modelled).        *)
(***************************************************************************)
EXTENDS Integers, Sequences, FiniteSets, Bags, TLC

\* ---------------------------------------------------------------- bounds
MaxInFlight == 2   \* request handlers in flight at the same time
MaxTicks == 2      \* clock advances in one behaviour

\* ------------------------------------------------------ program constants
StdTTL == 3600     \* new NodeCache({ stdTTL: 3600 })
DefaultTtlArg == 60 \* yargs option "ttl", default 60

\* the values of --ttl tried, and the clock advances tried (seconds): one
\* advance is past --ttl and within stdTTL, two are past stdTTL
TtlArgs == {DefaultTtlArg}
TickSteps == {(StdTTL \div 2) + DefaultTtlArg}

\* ------------------------------------------------------ JavaScript values
Undefined == [t |-> "undefined", v |-> ""]
EmptyStr == [t |-> "string", v |-> ""]
ObjA == [t |-> "object", v |-> "{a:1}"]
NumZero == [t |-> "number", v |-> "0"]
ErrBody == [t |-> "object", v |-> "{error:Proxy request failed}"]
StrA == [t |-> "string", v |-> "a"]

\* bodies the origin may answer a 2xx with: a JSON object and the JSON
\* number 0; EmptyStr is axios' data for an empty body
Payloads == {ObjA, NumZero}
JsValues == Payloads \cup {EmptyStr, Undefined, ErrBody}

\* JavaScript truthiness, as tested by if (cachedResponse), if (response.data)
Truthy(val) ==
    /\ val.t # "undefined"
    /\ val.t # "null"
    /\ ~(val.t = "string" /\ val.v = "")
    /\ ~(val.t = "number" /\ val.v = "0")
    /\ ~(val.t = "boolean" /\ val.v = "false")

\* JSON.stringify of one value: strings are quoted, the rest is its text
JSONstringify(val) ==
    IF val.t = "string" THEN <<"q", val.v, "q">> ELSE <<val.v>>

\* JSON.parse of a text JSONstringify produced
JSONparse(text) ==
    IF Len(text) = 3 THEN [t |-> "string", v |-> text[2]]
    ELSE CHOOSE val \in JsValues \ {Undefined} :
            val.t # "string" /\ val.v = text[1]

\* --------------------------------------------------------------- requests
ConditionalHeaders == {"if-none-match", "if-modified-since"}
OriginHost == "origin.example"

ReqPlain == [method |-> "GET", url |-> "/x",
             headers |-> << <<"host", "localhost:3000">> >>]
ReqCond == [method |-> "GET", url |-> "/x",
            headers |-> << <<"accept", "*/*">>,
                           <<"host", "localhost:3000">>,
                           <<"if-none-match", "v1">>,
                           <<"if-modified-since", "d1">> >>]
Requests == {ReqPlain, ReqCond}
NoReq == [method |-> "", url |-> "", headers |-> <<>>]

HeaderNames(headers) == {headers[n][1] : n \in 1..Len(headers)}

\* JSON.stringify of the headers object: its own keys in insertion order
RECURSIVE HeadersText(_)
HeadersText(headers) ==
    IF headers = <<>> THEN <<>>
    ELSE <<headers[1][1], headers[1][2]>> \o HeadersText(Tail(headers))

\* JSON.stringify(keyData), keyData = {method, url, headers} in that order
KeyDataText(req) ==
    <<"method", req.method, "url", req.url, "headers">> \o HeadersText(req.headers)

\* crypto.createHash("md5").update(text).digest("hex")
Md5Hex(text) == <<"md5">> \o text

\* a variant of generateCacheKey that hashes the method and the url only
generateCacheKey_MethodUrl(req) ==
    Md5Hex(<<"method", req.method, "url", req.url>>)

generateCacheKey(req) == Md5Hex(KeyDataText(req))

\* delete headers["if-none-match"]; delete headers["if-modified-since"]
StripConditional(headers) ==
    SelectSeq(headers, LAMBDA hd : hd[1] \notin ConditionalHeaders)

\* { ...h, host: new URL(origin).host }: an own key keeps its position
SetHost(headers) ==
    IF "host" \in HeaderNames(headers)
    THEN [n \in 1..Len(headers) |->
            IF headers[n][1] = "host" THEN <<"host", OriginHost>> ELSE headers[n]]
    ELSE Append(headers, <<"host", OriginHost>>)

\* headers of the first axios call (lines 100-103): built from req.headers
FirstCallHeaders(req) == SetHost(req.headers)

\* headers of the second axios call (lines 135-138): built from the copy
\* the conditional headers were deleted from
SecondCallHeaders(req) == SetHost(StripConditional(req.headers))

\* ------------------------------------------------------------- NodeCache
\* The store maps a key to [v, t, at]: the value, the second it expires at
\* and the second it was set at (kept for the properties only).
EmptyCache == [k \in {} |-> [v |-> Undefined, t |-> 0, at |-> 0]]

\* an entry is expired once its expiry time lies in the past (t = 0: never)
Expired(entry, t) == entry.t # 0 /\ entry.t < t

LiveKeys(c, t) == {k \in DOMAIN c : ~Expired(c[k], t)}

\* cache.get(key): the value, or undefined when missing or expired
CacheGet(c, key, t) ==
    IF key \in LiveKeys(c, t) THEN c[key].v ELSE Undefined

\* a variant of CacheAfterGet in which a get that finds a live entry
\* restarts its ttl
CacheAfterGet_Touch(c, key, t) ==
    IF key \in DOMAIN c /\ Expired(c[key], t)
    THEN [k \in DOMAIN c \ {key} |-> c[k]]
    ELSE IF key \in DOMAIN c
    THEN [c EXCEPT ![key].t = t + StdTTL]
    ELSE c

\* cache.get(key) deletes the entry it finds expired
CacheAfterGet(c, key, t) ==
    IF key \in DOMAIN c /\ Expired(c[key], t)
    THEN [k \in DOMAIN c \ {key} |-> c[k]]
    ELSE c

\* cache.set(key, value): the constructor's stdTTL is the only ttl in use
CacheSet(c, key, val, t) ==
    [k \in DOMAIN c \cup {key} |->
        IF k = key THEN [v |-> val, t |-> t + StdTTL, at |-> t] ELSE c[k]]

\* ---------------------------------------------------------- snapshot file
\* The file is absent, or holds the JSON text of an object key -> value
\* (kind "json"), or something else.  On three kinds readFileSync or
\* JSON.parse throws: "unreadable", "truncated" (fs.writeFileSync opened
\* it, which empties it, and did not finish) and "garbage" (text JSON.parse
\* rejects).  On four kinds JSON.parse returns a value that is no object:
\* "null" (Object.entries(null) throws), "array" (here [{a:1}, 0]),
\* "string" (here "a") and "scalar" (a number or a boolean).
\* text is what Object.entries of the parsed value yields, as key -> JSON
\* text: the members of an object, the items of an array and the characters
\* of a string under their index, nothing for a scalar.
NoFile == [exists |-> FALSE, kind |-> "absent", text |-> [k \in {} |-> <<>>]]

\* the file a completed fs.writeFileSync(path, JSON.stringify(obj)) leaves
WrittenFile(text) == [exists |-> TRUE, kind |-> "json", text |-> text]

\* the kinds on which the try block of loadCache throws, and the kinds that
\* parse to a value that is no object and that it takes the entries of
ThrowKinds == {"truncated", "garbage", "unreadable", "null"}
NonObjectKinds == {"array", "string", "scalar"}
BadKinds == ThrowKinds \cup NonObjectKinds

\* a file that is not a snapshot object, of one of these kinds
BadFile(kind) ==
    [exists |-> TRUE, kind |-> kind,
     text |-> IF kind = "array"
              THEN (<<"0">> :> JSONstringify(ObjA))
                   @@ (<<"1">> :> JSONstringify(NumZero))
              ELSE IF kind = "string"
              THEN (<<"0">> :> JSONstringify(StrA))
              ELSE [k \in {} |-> <<>>]]

\* fs.existsSync is true and readFileSync, JSON.parse and Object.entries
\* do not throw
Loadable(f) == f.exists /\ f.kind \notin ThrowKinds

\* a variant of saveCacheText that dumps every held key, expired or not
saveCacheText_AllKeys(c, t) == [k \in DOMAIN c |-> JSONstringify(c[k].v)]

\* saveCache, the text written: keys() lists every held key, get() yields
\* undefined for the expired ones and JSON.stringify drops those
saveCacheText(c, t) == [k \in LiveKeys(c, t) |-> JSONstringify(c[k].v)]

\* saveCache, the store afterwards: its get() calls deleted the expired
saveCacheStore(c, t) == [k \in LiveKeys(c, t) |-> c[k]]

\* a variant of loadCache that sets only the truthy values of the file
loadCache_SkipFalsy(f, c, t) ==
    IF Loadable(f)
    THEN LET keep == {k \in DOMAIN f.text : Truthy(JSONparse(f.text[k]))}
         IN [k \in DOMAIN c \cup keep |->
                IF k \in keep
                THEN CacheSet(c, k, JSONparse(f.text[k]), t)[k]
                ELSE c[k]]
    ELSE c

\* loadCache: every entry Object.entries yields for the parsed file is set,
\* with a fresh stdTTL, whether the file held an object or not; a missing
\* file is skipped, and a throw of readFileSync, JSON.parse or
\* Object.entries is caught before any entry is set
loadCache(f, c, t) ==
    IF Loadable(f)
    THEN [k \in DOMAIN c \cup DOMAIN f.text |->
            IF k \in DOMAIN f.text
            THEN CacheSet(c, k, JSONparse(f.text[k]), t)[k]
            ELSE c[k]]
    ELSE c

\* cache.flushAll()
flushAll(c) == EmptyCache

\* if (fs.existsSync(path)) fs.unlinkSync(path).  u: unlinkSync succeeds;
\* when it throws (EACCES, EISDIR, ...) the path stays as it was
unlinkIfExists(f, u) == IF f.exists /\ u THEN NoFile ELSE f

\* fs.unlinkSync is called and throws
unlinkThrows(f, u) == f.exists /\ ~u

\* the key -> value mapping a reader of the file obtains
FileEntries(f) ==
    IF Loadable(f) THEN [k \in DOMAIN f.text |-> JSONparse(f.text[k])]
    ELSE [k \in {} |-> Undefined]

\* the key -> value mapping of the live entries of the store
StoreEntries(c, t) == [k \in LiveKeys(c, t) |-> c[k].v]

\* ----------------------------------------------------------------- origin
\* What one axios call can end in: a response (status, body) or a network
\* error with no response.  A 304 response carries no body.
NetworkError == [kind |-> "neterr", status |-> 0, data |-> Undefined]

\* the error fs.writeFileSync throws: like a network error, it has no
\* response attached
WriteError == [kind |-> "fserr", status |-> 0, data |-> Undefined]

\* what fs.writeFileSync can end in: the text is written; the open throws
\* and the path stays as it was; a write after the open throws, and the
\* open has emptied the file
WriteOutcomes == {"written", "open-failed", "write-failed"}

\* the file after fs.writeFileSync(path, text) ended in w
writeFileSync(f, text, w) ==
    IF w = "written" THEN WrittenFile(text)
    ELSE IF w = "open-failed" THEN f
    ELSE BadFile("truncated")

UpstreamOutcomes ==
    {[kind |-> "response", status |-> 200, data |-> p] : p \in Payloads}
    \cup {[kind |-> "response", status |-> 304, data |-> EmptyStr],
          [kind |-> "response", status |-> 404, data |-> ErrBody],
          NetworkError}

\* validateStatus of the first call (lines 110-112)
validateStatus(status) == (status >= 200 /\ status < 300) \/ status = 304

\* axios' default validateStatus, in force for the second call
defaultValidateStatus(status) == status >= 200 /\ status < 300

\* a variant of ErrorStatus that drops the upstream's status
ErrorStatus_Always500(out) == 500

\* error.response?.status || 500 (line 162)
ErrorStatus(out) ==
    IF out.kind = "response" /\ out.status # 0 THEN out.status ELSE 500

\* ------------------------------------------------------------------ state
VARIABLES
    now,      \* the clock, seconds
    ticks,    \* clock advances so far
    ttlArg,   \* argv.ttl
    phase,    \* "down": no server process; "up": start() has run
    cache,    \* this.cache of the server process
    file,     \* the snapshot file at cacheFilePath
    h,        \* the handlers in flight, a bag: each one's locals and position
    done      \* what the latest step completed: the handler it finished
              \* (its locals and its response), the handler it brought to
              \* await this.saveCache(), a start() or a clear (see pc
              \* below), or IdleSlot for none of these

vars == <<now, ticks, ttlArg, phase, cache, file, h, done>>

\* the response: kind is "json" for res.json(payload), "error" for the
\* error body of the catch block
NoRes == [sent |-> FALSE, kind |-> "", status |-> 0, xcache |-> "",
          body |-> Undefined]

\* pc: "idle", "await1" (first axios call pending), "await2" (second one
\* pending), "await3" (await this.saveCache(): saveCache has returned and
\* the rest of the handler is queued as a microtask; q is its place in
\* that queue, 0 when not queued), "done" (response sent), "ended" (the
\* handler returned without responding); not handlers: "started"
\* (start()), "cleared" (a clearCache() call), "cleared-run" (a
\* --clear-cache run of another process), "clear-threw" and
\* "clear-run-threw" (the same two when unlinkSync throws).  sent: the
\* headers of each axios call made; got: what each call ended in; data:
\* the payload stored; wfail: fs.writeFileSync threw; steps: what was done
\* to the store and the file
IdleSlot == [pc |-> "idle", req |-> NoReq, cachedResponse |-> Undefined,
             sent |-> <<>>, got |-> <<>>, data |-> Undefined,
             wfail |-> FALSE, steps |-> <<>>, q |-> 0, res |-> NoRes]

\* res.set("X-Cache", x); return res.json(body)   (status 200)
Json(s, x, body) ==
    [s EXCEPT !.pc = "done",
              !.res = [sent |-> TRUE, kind |-> "json", status |-> 200,
                       xcache |-> x, body |-> body]]

\* res.status(code).json({error, details}): headers set earlier stay set
JsonError(s, code) ==
    [s EXCEPT !.pc = "done",
              !.res = [sent |-> TRUE, kind |-> "error", status |-> code,
                       xcache |-> s.res.xcache, body |-> ErrBody]]

\* the catch block (lines 151-166)
Catch(s, out) ==
    IF out.kind = "response" /\ out.status = 304 /\ Truthy(s.cachedResponse)
    THEN Json(s, "HIT", s.cachedResponse)
    ELSE JsonError(s, ErrorStatus(out))

\* the handler that stood at s0 is over, with final record s
Finish(s0, s) ==
    /\ h' = h (-) SetToBag({s0})
    /\ done' = s

\* the handler that stood at s0 goes on as s, up to its next await
Continue(s0, s) ==
    /\ h' = (h (-) SetToBag({s0})) (+) SetToBag({s})
    /\ done' = IdleSlot

\* the handlers whose continuation after await this.saveCache() is queued
Queued(b) == {s \in BagToSet(b) : s.q > 0}
QueueLen(b) == Cardinality(Queued(b))

\* the handler that stood at s0 has set and saved and waits as s at the
\* end of the microtask queue
Enqueue(s0, s) ==
    LET w == [s EXCEPT !.pc = "await3", !.q = QueueLen(h) + 1]
    IN /\ h' = (h (-) SetToBag({s0})) (+) SetToBag({w})
       /\ done' = w

\* the queue after its head s0 has run: the others move up by one
Dequeued(b, s0) ==
    (b (-) SetToBag(Queued(b)))
    (+) SetToBag({[s EXCEPT !.q = s.q - 1] : s \in Queued(b) \ {s0}})

Init ==
    /\ now = 0
    /\ ticks = 0
    /\ ttlArg \in TtlArgs
    /\ phase = "down"
    /\ cache = EmptyCache
    /\ file = NoFile
    /\ h = EmptyBag
    /\ done = IdleSlot

\* what loadCache writes to the console: its catch block logs the error
loadCacheLog(f) ==
    IF f.exists /\ ~Loadable(f) THEN <<"console.error">> ELSE <<>>

\* new CachingProxy() and proxy.start(port, origin): loadCache, then listen
start ==
    /\ phase = "down"
    /\ phase' = "up"
    /\ cache' = loadCache(file, cache, now)
    /\ done' = [IdleSlot EXCEPT !.pc = "started", !.steps = loadCacheLog(file)]
    /\ UNCHANGED <<now, ticks, ttlArg, file, h>>

\* a request arrives: the handler up to its first await (lines 82-113).
\* Express calls the handler from an I/O callback, which node runs only
\* once the microtask queue is empty.
Receive(r) ==
    /\ phase = "up"
    /\ BagCardinality(h) < MaxInFlight
    /\ QueueLen(h) = 0
    /\ LET key == generateCacheKey(r)
           cachedResponse == CacheGet(cache, key, now)
           s == [IdleSlot EXCEPT !.req = r, !.cachedResponse = cachedResponse]
       IN /\ cache' = CacheAfterGet(cache, key, now)
          /\ IF Truthy(cachedResponse)
             THEN /\ h' = h
                  /\ done' = Json(s, "HIT", cachedResponse)
             ELSE /\ h' = h (+) SetToBag({[s EXCEPT !.pc = "await1",
                                              !.sent = <<FirstCallHeaders(r)>>]})
                  /\ done' = IdleSlot
    /\ UNCHANGED <<now, ticks, ttlArg, phase, file>>

\* a variant of FirstBranch whose 304 test does not look at cachedResponse
FirstBranch_Any304(s, out) ==
    IF ~(out.kind = "response" /\ validateStatus(out.status)) THEN "catch"
    ELSE IF out.status = 304 THEN "hit"
    ELSE IF Truthy(out.data) THEN "store"
    ELSE "none"

\* which way the code after the first await goes (lines 97-150)
FirstBranch(s, out) ==
    IF ~(out.kind = "response" /\ validateStatus(out.status)) THEN "catch"
    ELSE IF out.status = 304 /\ Truthy(s.cachedResponse) THEN "hit"
    ELSE IF Truthy(out.data) THEN "store"
    ELSE IF out.status = 304 /\ ~Truthy(s.cachedResponse) THEN "refetch"
    ELSE "none"

\* a variant of SecondBranch that stores the body of any response
SecondBranch_AnyResponse(s, out) ==
    IF out.kind = "response" THEN "store" ELSE "catch"

\* which way the code after the second await goes (lines 132-149)
SecondBranch(s, out) ==
    IF out.kind = "response" /\ defaultValidateStatus(out.status)
    THEN "store" ELSE "catch"

\* a variant of StoreAndSave that answers before the file is written
\* (write-behind)
StoreAndSave_WriteBehind(s0, s, body, w) ==
    LET key == generateCacheKey(s.req)
        set == CacheSet(cache, key, body, now)
        miss == [s EXCEPT !.res.xcache = "MISS", !.data = body,
                          !.steps = <<"set">>]
    IN /\ cache' = set
       /\ file' = file
       /\ Finish(s0, Json(miss, "MISS", body))

\* res.set("X-Cache", "MISS"); this.cache.set(cacheKey, data);
\* await this.saveCache(); return res.json(data).  saveCache runs at once.
\* When fs.writeFileSync throws (w), the throw lands in the catch block
\* within the same step.  When it returns, the await (of undefined) puts
\* the rest of the handler, res.json, at the end of the microtask queue.
StoreAndSave(s0, s, body, w) ==
    LET key == generateCacheKey(s.req)
        set == CacheSet(cache, key, body, now)
        miss == [s EXCEPT !.res.xcache = "MISS", !.data = body,
                          !.steps = <<"set">>]
        saved == [miss EXCEPT !.steps = <<"set", "save">>]
    IN /\ cache' = saveCacheStore(set, now)
       /\ file' = writeFileSync(file, saveCacheText(set, now), w)
       /\ IF w = "written"
          THEN Enqueue(s0, saved)
          ELSE Finish(s0, Catch([miss EXCEPT !.wfail = TRUE], WriteError))

\* return res.json(data) after await this.saveCache() (lines 126, 149):
\* the head of the microtask queue runs
Respond(s0) ==
    /\ phase = "up"
    /\ s0 \in BagToSet(h)
    /\ s0.pc = "await3"
    /\ s0.q = 1
    /\ h' = Dequeued(h, s0)
    /\ done' = Json([s0 EXCEPT !.q = 0], "MISS", s0.data)
    /\ UNCHANGED <<now, ticks, ttlArg, phase, cache, file>>

\* the first axios call of handler s0 settles and the handler runs on to
\* its next await or to its end
Upstream1(s0, out, w) ==
    /\ phase = "up"
    /\ s0 \in BagToSet(h)
    /\ s0.pc = "await1"
    /\ LET s == [s0 EXCEPT !.got = <<out>>]
           branch == FirstBranch(s, out)
       IN /\ w = "written" \/ branch = "store"
          /\ IF branch = "store" THEN StoreAndSave(s0, s, out.data, w)
             ELSE /\ UNCHANGED <<cache, file>>
                  /\ IF branch = "catch" THEN Finish(s0, Catch(s, out))
                     ELSE IF branch = "hit"
                     THEN Finish(s0, Json(s, "HIT", s.cachedResponse))
                     ELSE IF branch = "refetch"
                     THEN Continue(s0, [s EXCEPT !.pc = "await2",
                              !.sent = Append(s.sent, SecondCallHeaders(s.req))])
                     ELSE Finish(s0, [s EXCEPT !.pc = "ended"])
    /\ UNCHANGED <<now, ticks, ttlArg, phase>>

\* the second axios call settles (lines 132-149, or the catch block)
Upstream2(s0, out, w) ==
    /\ phase = "up"
    /\ s0 \in BagToSet(h)
    /\ s0.pc = "await2"
    /\ LET s == [s0 EXCEPT !.got = Append(s0.got, out)]
           branch == SecondBranch(s, out)
       IN /\ w = "written" \/ branch = "store"
          /\ IF branch = "store" THEN StoreAndSave(s0, s, out.data, w)
             ELSE /\ UNCHANGED <<cache, file>>
                  /\ Finish(s0, Catch(s, out))
    /\ UNCHANGED <<now, ticks, ttlArg, phase>>

\* the clock advances (by minutes: not while a microtask is queued)
Tick(d) ==
    /\ ticks < MaxTicks
    /\ QueueLen(h) = 0
    /\ ticks' = ticks + 1
    /\ now' = now + d
    /\ done' = IdleSlot
    /\ UNCHANGED <<ttlArg, phase, cache, file, h>>

\* clearCache() on the serving object (lines 60-66).  When unlinkSync
\* throws, the exception leaves clearCache with the store already flushed.
clearCache(u) ==
    /\ phase = "up"
    /\ u \/ file.exists
    /\ cache' = flushAll(cache)
    /\ file' = unlinkIfExists(file, u)
    /\ done' = IF unlinkThrows(file, u)
               THEN [IdleSlot EXCEPT !.pc = "clear-threw",
                                     !.steps = <<"flushAll", "throw">>]
               ELSE [IdleSlot EXCEPT !.pc = "cleared",
                       !.steps = IF file.exists
                                 THEN <<"flushAll", "unlinkSync">>
                                 ELSE <<"flushAll">>]
    /\ UNCHANGED <<now, ticks, ttlArg, phase, h>>

\* a --clear-cache run (lines 207-210): another process constructs its own
\* empty store, flushes it and unlinks the file; when unlinkSync throws the
\* run ends in an uncaught exception
ClearCacheRun(u) ==
    /\ u \/ file.exists
    /\ file' = unlinkIfExists(file, u)
    /\ done' = IF unlinkThrows(file, u)
               THEN [IdleSlot EXCEPT !.pc = "clear-run-threw"]
               ELSE [IdleSlot EXCEPT !.pc = "cleared-run"]
    /\ UNCHANGED <<now, ticks, ttlArg, phase, cache, h>>

\* the server process ends: its store and its handlers in flight are gone
Exit ==
    /\ phase = "up"
    /\ phase' = "down"
    /\ cache' = EmptyCache
    /\ h' = EmptyBag
    /\ done' = IdleSlot
    /\ UNCHANGED <<now, ticks, ttlArg, file>>

Next ==
    \/ start
    \/ \E r \in Requests : Receive(r)
    \/ \E s0 \in BagToSet(h), out \in UpstreamOutcomes, w \in WriteOutcomes :
            Upstream1(s0, out, w)
    \/ \E s0 \in BagToSet(h), out \in UpstreamOutcomes, w \in WriteOutcomes :
            Upstream2(s0, out, w)
    \/ \E s0 \in BagToSet(h) : Respond(s0)
    \/ \E d \in TickSteps : Tick(d)
    \/ \E u \in BOOLEAN : clearCache(u)
    \/ \E u \in BOOLEAN : ClearCacheRun(u)
    \/ Exit

Spec == Init /\ [][Next]_vars

\* ------------------------------------------------ two parts of the server
\* The server while the clock stands still: every request, upstream answer,
\* write outcome, clear and exit, and no expiry.
NextStill ==
    \/ start
    \/ \E r \in Requests : Receive(r)
    \/ \E s0 \in BagToSet(h), out \in UpstreamOutcomes, w \in WriteOutcomes :
            Upstream1(s0, out, w)
    \/ \E s0 \in BagToSet(h), out \in UpstreamOutcomes, w \in WriteOutcomes :
            Upstream2(s0, out, w)
    \/ \E s0 \in BagToSet(h) : Respond(s0)
    \/ \E u \in BOOLEAN : clearCache(u)
    \/ \E u \in BOOLEAN : ClearCacheRun(u)
    \/ Exit

SpecStill == Init /\ [][NextStill]_vars

\* The server while the file system does not fail and nobody clears: every
\* request and upstream answer, the clock, exits and restarts.
NextCalm ==
    \/ start
    \/ \E r \in Requests : Receive(r)
    \/ \E s0 \in BagToSet(h), out \in UpstreamOutcomes :
            Upstream1(s0, out, "written")
    \/ \E s0 \in BagToSet(h), out \in UpstreamOutcomes :
            Upstream2(s0, out, "written")
    \/ \E s0 \in BagToSet(h) : Respond(s0)
    \/ \E d \in TickSteps : Tick(d)
    \/ Exit

SpecCalm == Init /\ [][NextCalm]_vars

\* ------------------------------------------------------ the file, closely
\* The server with the events of the file system that loadCache and
\* fs.writeFileSync are exposed to, and with files of every kind put in
\* the snapshot's place.  The origin answers 200 with a body or
\* does not answer; the clock stands still.
FileOutcomes ==
    {[kind |-> "response", status |-> 200, data |-> ObjA], NetworkError}

\* something other than the program damages the file
Damage(kind) ==
    /\ file' = BadFile(kind)
    /\ done' = IdleSlot
    /\ UNCHANGED <<now, ticks, ttlArg, phase, cache, h>>

\* the process is killed inside fs.writeFileSync (line 40) of the handler
\* s0: the file has been opened for writing, which empties it, and the text
\* is not yet all written
KilledInWrite(s0, out) ==
    /\ phase = "up"
    /\ s0 \in BagToSet(h)
    /\ s0.pc = "await1"
    /\ FirstBranch([s0 EXCEPT !.got = <<out>>], out) = "store"
    /\ file' = BadFile("truncated")
    /\ phase' = "down"
    /\ cache' = EmptyCache
    /\ h' = EmptyBag
    /\ done' = IdleSlot
    /\ UNCHANGED <<now, ticks, ttlArg>>

NextFile ==
    \/ start
    \/ \E r \in Requests : Receive(r)
    \/ \E s0 \in BagToSet(h), out \in FileOutcomes, w \in WriteOutcomes :
            Upstream1(s0, out, w)
    \/ \E s0 \in BagToSet(h) : Respond(s0)
    \/ \E s0 \in BagToSet(h), out \in FileOutcomes : KilledInWrite(s0, out)
    \/ \E kind \in BadKinds \ {"truncated"} : Damage(kind)
    \/ \E u \in BOOLEAN : ClearCacheRun(u)
    \/ Exit

SpecFile == Init /\ [][NextFile]_vars

\* ------------------------------------------------------ the key, closely
\* The server under requests that differ from KeyBase in one part of the
\* descriptor each: the order of the headers, the method, the url, a header
\* value, one more (conditional) header.
KeyBase == [method |-> "GET", url |-> "/x",
            headers |-> << <<"accept", "*/*">>, <<"host", "localhost:3000">> >>]
KeyReordered == [KeyBase EXCEPT
    !.headers = << <<"host", "localhost:3000">>, <<"accept", "*/*">> >>]
KeyMethod == [KeyBase EXCEPT !.method = "POST"]
KeyUrl == [KeyBase EXCEPT !.url = "/y"]
KeyValue == [KeyBase EXCEPT !.headers[1] = <<"accept", "text/html">>]
KeyExtra == [KeyBase EXCEPT
    !.headers = Append(KeyBase.headers, <<"if-none-match", "v1">>)]
KeyRequests == {KeyBase, KeyReordered, KeyMethod, KeyUrl, KeyValue, KeyExtra}

\* The origin answers each of them 200 with a body of its own, so that a
\* payload shows which request it was fetched for.
EchoBody(r) ==
    [t |-> "object",
     v |-> CASE r = KeyBase -> "{for:base}"
             [] r = KeyReordered -> "{for:reordered}"
             [] r = KeyMethod -> "{for:method}"
             [] r = KeyUrl -> "{for:url}"
             [] r = KeyValue -> "{for:value}"
             [] r = KeyExtra -> "{for:extra}"]
EchoOutcome(r) == [kind |-> "response", status |-> 200, data |-> EchoBody(r)]

NextKey ==
    \/ start
    \/ \E r \in KeyRequests : Receive(r)
    \/ \E s0 \in BagToSet(h) : Upstream1(s0, EchoOutcome(s0.req), "written")
    \/ \E s0 \in BagToSet(h) : Respond(s0)

SpecKey == Init /\ [][NextKey]_vars

\* ------------------------------------------------- saveCache / loadCache
\* saveCache and loadCache applied to stores drawn from a bounded set: one
\* object saves its store, then a fresh object loads the file.
RtKeys == {generateCacheKey(r) : r \in Requests}
RtValues == {ObjA, NumZero, EmptyStr}
RtSetTimes == {0, CHOOSE d \in TickSteps : TRUE}
RtEntries == {[v |-> val, t |-> at + StdTTL, at |-> at] :
                val \in RtValues, at \in RtSetTimes}
RtStores == UNION {[ks -> RtEntries] : ks \in SUBSET RtKeys}
RtClock == {n * (CHOOSE d \in TickSteps : TRUE) : n \in 1..MaxTicks}

InitRT ==
    /\ now \in RtClock
    /\ ticks = 0
    /\ ttlArg \in TtlArgs
    /\ phase = "store"
    /\ cache \in RtStores
    /\ file = NoFile
    /\ h = EmptyBag
    /\ done = IdleSlot

\* saveCache() (lines 35-41)
RtSave ==
    /\ phase = "store"
    /\ phase' = "saved"
    /\ file' = WrittenFile(saveCacheText(cache, now))
    /\ cache' = saveCacheStore(cache, now)
    /\ UNCHANGED <<now, ticks, ttlArg, h, done>>

\* loadCache() of a newly constructed object (lines 12-19, 44-57)
RtLoad ==
    /\ phase = "saved"
    /\ phase' = "loaded"
    /\ cache' = loadCache(file, EmptyCache, now)
    /\ UNCHANGED <<now, ticks, ttlArg, file, h, done>>

NextRT ==
    \/ RtSave
    \/ RtLoad

SpecRT == InitRT /\ [][NextRT]_vars

\* ------------------------------------------------------------- properties
Key(s) == generateCacheKey(s.req)

Last(seq) == seq[Len(seq)]

\* the latest step finished a request handler
HandlerOver(d) == d.pc \in {"done", "ended"}

\* the step at hand received a request with descriptor r: it was answered
\* from the store at once, or a handler for it now waits for the upstream
ReceivedNow(r) ==
    \/ /\ done'.pc = "done"
       /\ done'.req = r
       /\ done'.sent = <<>>
    \/ \E s \in BagToSet(h') :
          /\ s.pc = "await1"
          /\ s.req = r
          /\ CopiesIn(s, h') > CopiesIn(s, h)

\* the step at hand answered the request received in it as a HIT with val
HitNow(r, val) ==
    /\ done'.pc = "done"
    /\ done'.req = r
    /\ done'.sent = <<>>
    /\ done'.res = [sent |-> TRUE, kind |-> "json", status |-> 200,
                    xcache |-> "HIT", body |-> val]

\* the step at hand forwarded the request received in it to the upstream
MissNow(r) ==
    \E s \in BagToSet(h') :
        /\ s.pc = "await1"
        /\ s.req = r
        /\ Len(s.sent) = 1
        /\ CopiesIn(s, h') > CopiesIn(s, h)

\* in the step at hand the first upstream call of handler s was answered 304
Settled304(s) ==
    /\ s.pc = "await1"
    /\ CopiesIn(s, h') < CopiesIn(s, h)
    /\ \/ /\ HandlerOver(done')
          /\ done'.req = s.req
          /\ Len(done'.got) = 1
          /\ done'.got[1].status = 304
       \/ \E s2 \in BagToSet(h') :
             /\ s2.pc = "await2"
             /\ s2.req = s.req
             /\ s2.got[1].status = 304
             /\ CopiesIn(s2, h') > CopiesIn(s2, h)

\* d was answered with payload val, classified x
Answered(d, x, val) ==
    d.res = [sent |-> TRUE, kind |-> "json", status |-> 200,
             xcache |-> x, body |-> val]

Is2xx(out) == out.kind = "response" /\ out.status >= 200 /\ out.status < 300

\* an upstream call that failed: a network error, or a status that is
\* neither 2xx nor 304
UpstreamFailed(out) ==
    \/ out.kind = "neterr"
    \/ out.kind = "response" /\ ~Is2xx(out) /\ out.status # 304

NoConditional(headers) == HeaderNames(headers) \cap ConditionalHeaders = {}

\* C1: hit after miss.  A handler whose upstream call answers 200 with
\* payload P (and whose durable write does not fail) answers P classified
\* MISS, and a request with the same descriptor received right after that
\* answer is answered P classified HIT with no upstream call.
C1_HitAfterMiss ==
    [][ /\ ( /\ HandlerOver(done')
             /\ Len(done'.got) = 1
             /\ done'.got[1].kind = "response"
             /\ done'.got[1].status = 200
             /\ ~done'.wfail )
           => Answered(done', "MISS", done'.got[1].data)
        /\ \A r \in Requests :
             ( /\ HandlerOver(done)
               /\ done.req = r
               /\ Len(done.got) = 1
               /\ done.got[1].status = 200
               /\ Answered(done, "MISS", done.got[1].data)
               /\ ReceivedNow(r) )
             => HitNow(r, done.got[1].data) /\ h' = h
      ]_vars

\* C2: the first upstream call made for a request carries no
\* conditional-request header.
C2_FirstCallStripped ==
    \A s \in BagToSet(h) : Len(s.sent) >= 1 => NoConditional(s.sent[1])

\* C3: when the upstream answers 304 for a request while the store holds a
\* (truthy) value for the request's key, the request is answered with that
\* value classified HIT and no second upstream call is made.
C3_NotModifiedIsHit ==
    [][ \A s \in BagToSet(h) :
          ( /\ Settled304(s)
            /\ Truthy(CacheGet(cache, Key(s), now)) )
          => /\ Answered(done', "HIT", CacheGet(cache, Key(s), now))
             /\ Len(done'.sent) = 1
      ]_vars

\* C4: conditional fallback.  When the upstream answers 304 and the store
\* has no entry for the key, a second call without the conditional headers
\* is issued; when that call is answered (2xx or 304) its payload is stored
\* under the key and returned classified MISS, and the caller never gets
\* an error response for the not-modified condition.
C4_ConditionalFallback ==
    [][ /\ \A s \in BagToSet(h) :
             ( /\ Settled304(s)
               /\ CacheGet(cache, Key(s), now) = Undefined )
             => \E s2 \in BagToSet(h') :
                   /\ s2.pc = "await2"
                   /\ s2.req = s.req
                   /\ Len(s2.sent) = 2
                   /\ NoConditional(s2.sent[2])
        /\ ( /\ HandlerOver(done')
             /\ Len(done'.got) = 2
             /\ ~UpstreamFailed(done'.got[2])
             /\ ~done'.wfail )
           => /\ Answered(done', "MISS", done'.got[2].data)
              /\ CacheGet(cache', Key(done'), now') = done'.got[2].data
      ]_vars

\* C5: when an upstream call fails (a network error, or a status that is
\* neither 2xx nor 304) the step leaves the store and the snapshot file as
\* they were and the caller gets an error response carrying the upstream's
\* status when there is one and 500 otherwise.
C5_UpstreamFailure ==
    [][ ( /\ HandlerOver(done')
          /\ Len(done'.got) >= 1
          /\ UpstreamFailed(Last(done'.got)) )
        => /\ cache' = cache
           /\ file' = file
           /\ done'.res.sent
           /\ done'.res.kind = "error"
           /\ done'.res.status =
                 IF Last(done'.got).kind = "response"
                 THEN Last(done'.got).status ELSE 500
      ]_vars

\* C5 witness: a handler answered with the upstream's 404 after its second
\* call failed.
C5_Witness ==
    /\ HandlerOver(done)
    /\ Len(done.got) = 2
    /\ done.got[2].status = 404
    /\ done.res.status = 404

\* C6: an entry stored on a miss lives for the configured --ttl: an
\* identical request arriving before insertedAt + ttl is a HIT, one
\* arriving after insertedAt + ttl goes to the upstream again.
C6_ConfiguredTtl ==
    [][ \A r \in Requests :
          LET k == generateCacheKey(r) IN
          ( /\ k \in DOMAIN cache
            /\ Truthy(cache[k].v)
            /\ ReceivedNow(r) )
          => /\ now < cache[k].at + ttlArg => HitNow(r, cache[k].v)
             /\ now > cache[k].at + ttlArg => MissNow(r)
      ]_vars

\* C7: a request answered with a payload is classified HIT or MISS; HIT
\* exactly when the payload is the value read from the store and no
\* upstream call was made for the request, MISS exactly when the payload is
\* the body of an upstream call made for the request.
C7_HitOrMiss ==
    ( HandlerOver(done) /\ done.res.sent /\ done.res.kind = "json" )
    => /\ done.res.xcache \in {"HIT", "MISS"}
       /\ done.res.xcache = "HIT"
            <=> ( /\ done.sent = <<>>
                  /\ done.cachedResponse # Undefined
                  /\ done.res.body = done.cachedResponse )
       /\ done.res.xcache = "MISS"
            <=> ( /\ Len(done.sent) >= 1
                  /\ Len(done.got) = Len(done.sent)
                  /\ Last(done.got).kind = "response"
                  /\ done.res.body = Last(done.got).data )

\* C7 witness: a request answered MISS with the body of its second call.
C7_Witness ==
    /\ HandlerOver(done)
    /\ Len(done.got) = 2
    /\ done.res.kind = "json"
    /\ done.res.xcache = "MISS"

\* the keys whose entry in the snapshot file differs from their live entry
\* in the store (present on one side only, or with another value)
DiffKeys ==
    LET fe == FileEntries(file)
        se == StoreEntries(cache, now)
    IN {k \in DOMAIN fe \cup DOMAIN se :
          ~(k \in DOMAIN fe /\ k \in DOMAIN se /\ fe[k] = se[k])}

\* C8 as stated: while the server runs, the snapshot file and the live
\* in-memory entries differ by at most one entry.
C8_LagAtMostOne == phase = "up" => Cardinality(DiffKeys) <= 1

\* C8 amended: write-through.  Right after a handler has set an entry and
\* its durable write has succeeded (the handler has not answered yet), the
\* snapshot file exists and holds exactly the live in-memory entries.
C8_WriteThrough ==
    ( done.pc = "await3" /\ done.steps = <<"set", "save">> )
    => /\ Loadable(file)
       /\ FileEntries(file) = StoreEntries(cache, now)

\* C8 witness: a write-through that left two entries in the file.
C8_Witness ==
    /\ done.pc = "await3"
    /\ done.steps = <<"set", "save">>
    /\ Cardinality(DOMAIN file.text) = 2

\* C9: when the durable write fails after an entry has been set on a miss,
\* the store still holds the fetched payload under the request's key and
\* the next identical request is a HIT.
C9_NoRollback ==
    [][ /\ ( HandlerOver(done') /\ done'.wfail )
           => CacheGet(cache', Key(done'), now') = done'.data
        /\ ( HandlerOver(done) /\ done.wfail /\ ReceivedNow(done.req) )
           => HitNow(done.req, done.data)
      ]_vars

\* C10: clear idempotence.  Every clearCache call leaves the store without
\* entries and the file absent, whether or not there were entries or a
\* file, and a second call right after the first leaves that same state.
C10_ClearAlways ==
    [][ done'.pc \in {"cleared", "clear-threw"}
        => /\ DOMAIN cache' = {}
           /\ ~file'.exists
           /\ done.pc \in {"cleared", "clear-threw"}
                 => (cache' = cache /\ file' = file)
      ]_vars

\* C11: snapshot round-trip.  For every store, the empty one included,
\* saveCache writes the key -> value mapping of the store, and loadCache of
\* that file into a fresh store yields the same key -> value mapping.
C11_RoundTrip ==
    [][ /\ (phase = "store" /\ phase' = "saved")
           => /\ file'.exists
              /\ FileEntries(file') = StoreEntries(cache, now)
        /\ (phase = "saved" /\ phase' = "loaded")
           => StoreEntries(cache', now') = StoreEntries(cache, now)
      ]_vars

\* C11 witness: a loaded store with two entries, one of them falsy.
C11_Witness ==
    /\ phase = "loaded"
    /\ Cardinality(DOMAIN cache) = 2
    /\ \E k \in DOMAIN cache : ~Truthy(cache[k].v)
    /\ StoreEntries(cache, now) = FileEntries(file)

\* C12: corrupt snapshot tolerance.  When the file is missing, unreadable
\* or malformed (anything but the JSON text of a key -> value object),
\* start() ends with the store empty and the server serving; the file is
\* left as it was, and the failure shows only as one console.error line
\* (none for a missing file).
C12_CorruptTolerated ==
    [][ (done'.pc = "started" /\ ~(file.exists /\ file.kind = "json"))
        => /\ cache' = EmptyCache
           /\ phase' = "up"
           /\ file' = file
           /\ done'.steps = (IF file.exists THEN <<"console.error">> ELSE <<>>)
           /\ ~done'.res.sent
      ]_vars

\* the set of (name, value) pairs of a headers object
HeaderSet(headers) == {headers[n] : n \in 1..Len(headers)}

\* identical method, target and header set
SameDescriptor(r1, r2) ==
    /\ r1.method = r2.method
    /\ r1.url = r2.url
    /\ HeaderSet(r1.headers) = HeaderSet(r2.headers)

\* the store holds a live entry under the key of r
Stored(r) == generateCacheKey(r) \in LiveKeys(cache, now)

\* C13 as stated: cache key identity by header set.  While the store holds
\* the entry of a request r1, a request r2 that arrives is served from that
\* entry exactly if r2 has the method, target and header set of r1.
C13_SameSetSameKey ==
    [][ \A r1, r2 \in KeyRequests :
          (Stored(r1) /\ ReceivedNow(r2))
          => (SameDescriptor(r1, r2) <=> HitNow(r2, EchoBody(r1)))
      ]_vars

\* C13: cache key identity.  Two requests map to the same key exactly if
\* they have the same method, the same target and the same headers in the
\* same order; so while the store holds the entry of r1, a request r2 that
\* arrives is served from that entry exactly if it is r1 in all of these.
C13_KeyIdentity ==
    [][ \A r1, r2 \in KeyRequests :
          /\ (generateCacheKey(r1) = generateCacheKey(r2)) <=> (r1 = r2)
          /\ (Stored(r1) /\ ReceivedNow(r2))
             => ((r1 = r2) <=> HitNow(r2, EchoBody(r1)))
      ]_vars

\* C13 witness: a request was answered HIT with its own payload while the
\* store also held the entries of the five requests that differ from it in
\* one part each.
C13_Witness ==
    /\ done.req = KeyBase
    /\ done.sent = <<>>
    /\ Answered(done, "HIT", EchoBody(KeyBase))
    /\ \A r \in KeyRequests : Stored(r)

\* C14: durable writes are atomic for an outside reader.  The file is never
\* a partly written snapshot.
C14_NeverPartial == file.kind # "truncated"

\* C15: response ordering.  A request answered with a payload classified
\* MISS has had every upstream call it made answered, the last one with a
\* 2xx whose body is the payload, and its handler has set the store and
\* then saved the file before answering.  A handler that has set and saved
\* and has not answered yet finds the payload under its key in the store
\* and in the file.
C15_MissAfterWrites ==
    /\ (HandlerOver(done) /\ done.res.kind = "json"
                           /\ done.res.xcache = "MISS")
       => /\ done.res.sent
          /\ Len(done.sent) >= 1
          /\ Len(done.got) = Len(done.sent)
          /\ Is2xx(Last(done.got))
          /\ Last(done.got).data = done.res.body
          /\ done.data = done.res.body
          /\ done.steps = <<"set", "save">>
    /\ done.pc = "await3"
       => /\ ~done.res.sent
          /\ done.steps = <<"set", "save">>
          /\ Is2xx(Last(done.got))
          /\ Last(done.got).data = done.data
          /\ CacheGet(cache, Key(done), now) = done.data
          /\ Loadable(file)
          /\ Key(done) \in DOMAIN file.text
          /\ JSONparse(file.text[Key(done)]) = done.data
    /\ \A s \in BagToSet(h) :
          s.pc = "await3" => (~s.res.sent /\ s.steps = <<"set", "save">>)

\* C15 witness: a MISS answered after the fallback call, while another
\* handler is still waiting for its upstream.
C15_Witness ==
    /\ Answered(done, "MISS", NumZero)
    /\ Len(done.got) = 2
    /\ done.steps = <<"set", "save">>
    /\ h # EmptyBag

\* C16: expiry across restart.  Right after start() every entry of the
\* snapshot is in the store as set at load time, and a request for it is
\* served as HIT at the load and up to a full ttl window later.
C16_LoadedFullWindow ==
    (done.pc = "started" /\ phase = "up")
    => \A k \in DOMAIN FileEntries(file) :
          /\ k \in DOMAIN cache
          /\ cache[k].v = FileEntries(file)[k]
          /\ cache[k].at = now
          /\ cache[k].t = now + StdTTL
          /\ \A d \in {0, StdTTL} : Truthy(CacheGet(cache, k, now + d))

\* C17: every request is answered.  A handler that is over has sent a
\* response: a payload classified HIT or MISS, or an error with a status.
C17_AlwaysResponds ==
    HandlerOver(done)
    => /\ done.res.sent
       /\ \/ done.res.kind = "json" /\ done.res.xcache \in {"HIT", "MISS"}
          \/ done.res.kind = "error" /\ done.res.status >= 400

\* C18: the clear is final.  In the step that follows a --clear-cache run
\* no request is served as HIT (every entry of the store was stored before
\* the clear), and the file written in that step holds no entry that was in
\* the store before the clear, apart from the one the step stores.
C18_ClearIsFinal ==
    [][ done.pc = "cleared-run"
        => /\ ~(done'.pc = "done" /\ done'.res.kind = "json"
                                  /\ done'.res.xcache = "HIT")
           /\ \A k \in DOMAIN FileEntries(file') :
                 \/ k \notin LiveKeys(cache, now)
                 \/ HandlerOver(done') /\ done'.steps # <<>> /\ k = Key(done')
      ]_vars

\* C19: store integrity under concurrent requests.  Every value in the
\* store is a whole body of a 2xx upstream answer.  Every handler in flight
\* has called the upstream, whatever other handlers on its key do.  A
\* handler that stores leaves the body of its own last upstream answer
\* under its key, replacing what was there, and leaves the other entries as
\* they were; a request served from the store gets the value the store
\* holds, which is the one written last.
C19_StoreIntegrity ==
    /\ [](/\ \A k \in DOMAIN cache : cache[k].v \in Payloads
          /\ \A s \in BagToSet(h) : Len(s.sent) >= 1
          /\ (done.pc = "done" /\ done.res.xcache = "HIT"
                               /\ done.res.kind = "json")
             => /\ Key(done) \in DOMAIN cache
                /\ done.res.body = cache[Key(done)].v)
    /\ [][ (done'.pc = "await3" \/ (HandlerOver(done') /\ done'.wfail))
           => /\ Is2xx(Last(done'.got))
              /\ cache'[Key(done')] = [v |-> Last(done'.got).data,
                                       t |-> now + StdTTL, at |-> now]
              /\ \A k \in DOMAIN cache' \ {Key(done')} :
                    k \in DOMAIN cache /\ cache'[k] = cache[k]
         ]_vars

\* C19 witness: two misses on the same key ran concurrently and both
\* stored; the first has just answered, the store holds the body the
\* second one wrote last, and the second has not answered yet.
C19_Witness ==
    /\ Answered(done, "MISS", ObjA)
    /\ Key(done) \in DOMAIN cache
    /\ cache[Key(done)].v = NumZero
    /\ \E s \in BagToSet(h) :
          s.pc = "await3" /\ s.req = done.req /\ s.data = NumZero

\* C20: a HIT leaves the cache state alone.  A request answered as HIT was
\* answered without any upstream call, and the step that answered it
\* changed neither the store (entries and expiry times) nor the file nor
\* the handlers in flight.
C20_HitChangesNothing ==
    [][ (done'.pc = "done" /\ done'.res.kind = "json"
                           /\ done'.res.xcache = "HIT")
        => /\ done'.sent = <<>>
           /\ done'.got = <<>>
           /\ done'.steps = <<>>
           /\ cache' = cache
           /\ file' = file
           /\ h' = h
      ]_vars

\* C20 witness: a HIT on an entry set one clock advance earlier, whose
\* expiry time is still the one it got when it was set.
C20_Witness ==
    /\ Answered(done, "HIT", ObjA)
    /\ done.sent = <<>>
    /\ cache[Key(done)].at < now
    /\ cache[Key(done)].t = cache[Key(done)].at + StdTTL

====
